---------------------------- MODULE Spec2Model ----------------------------
(***************************************************************************)
(* Job lifecycle and progress reporting of the suno-support server.        *)
(*                                                                         *)
(*   server/main.py         tasks, run_separation_task, simulate_progress, *)
(*                          separate_audio, get_task_status, cancel_task   *)
(*   server/yue_service.py  jobs, start_generation_job, get_job_status,    *)
(*                          _run_yue_process                               *)
(*                                                                         *)
(* Every Python statement that reads or writes a shared dict is one step:  *)
(* the runner and ticker threads and the request handlers interleave at    *)
(* statement boundaries.  A Python dict is a function from its keys, so a  *)
(* key that was never assigned is not in the DOMAIN.                       *)
(***************************************************************************)
EXTENDS Integers, Sequences, FiniteSets, TLC

(***************************************************************************)
(* Bounds of the model.                                                    *)
(***************************************************************************)
\* ids a request may name; uuid4 draws a fresh one among them
NumIds == 2
\* separation jobs submitted in one run
MaxSepJobs == 1
\* jobs of either kind submitted in a run of both services
MaxJobs == 1
\* the largest total m of a marker "n/m [" of a staged run
MaxTotal == 4
\* seconds the Separate call may last, counted in ticker timeouts
MaxTicks == 2
\* generation jobs submitted in one run
MaxGenJobs == 1
\* lines the external process writes before it exits
MaxLines == 2
\* the largest n and m of a marker line "n/m ["
MaxNum == 2

TaskIds == 1..NumIds

(***************************************************************************)
(* Program constants.                                                      *)
(***************************************************************************)
\* main.py:118  if current < 95
TickCap == 95

VARIABLES
    tasks,      \* main.py:65  tasks: id -> dict
    pc,         \* position of the run_separation_task thread of each id
    exc,        \* the exception in flight in that thread, as <<message>>, or <<>>
    output_files, \* main.py:132  what separator.separate returned
    stop_progress, \* main.py:110  the threading.Event of each id
    tpc,        \* position of the simulate_progress thread of each id
    current,    \* main.py:113  the ticker's local counter
    cancelled_at, \* history: the phases at which a cancel was accepted
    jobs,       \* yue_service.py:27  jobs: id -> dict
    gpc,        \* position of the _run_yue_process thread of each id
    gexc,       \* the exception in flight in that thread, as <<message>>, or <<>>
    options,    \* the options dict start_generation_job was given
    line,       \* yue_service.py:195  the stripped line the loop is working on
    emitted,    \* the lines the external process has written so far, in order
    files,      \* the files of each job's directory OUTPUT_DIR/<job_id>
    returncode, \* process.returncode: <<>> until process.wait(), then <<rc>>
    resp        \* what the last request handler answered

sepVars == <<tasks, pc, exc, output_files, stop_progress, tpc, current, cancelled_at>>
genVars == <<jobs, gpc, gexc, options, line, emitted, files, returncode>>
vars == <<sepVars, genVars, resp>>

(***************************************************************************)
(* Dict helpers.                                                           *)
(***************************************************************************)
\* d[k] = v on a Python dict: inserts the key or overwrites it
SetKey(d, k, v) == [x \in DOMAIN d \cup {k} |-> IF x = k THEN v ELSE d[x]]

\* tasks[task_id][k] = v
SetTaskKey(id, k, v) == [tasks EXCEPT ![id] = SetKey(tasks[id], k, v)]

None == "None"

\* what a request handler answers: main.py answers over HTTP, while the
\* functions of yue_service.py return a value or raise.  resp holds the last
\* request, the handler and the id it was about, with its answer.
Answer(op, id, code) == [op |-> op, id |-> id, code |-> code]
NoResponse == Answer("none", 0, "none")
HTTP200 == "200"
HTTP404 == "404 Task not found"
HTTP500 == "500"
Returned == "returned"
Raised == "raised"

\* d.get(k): None when the key is absent
Get(d, k) == IF k \in DOMAIN d THEN d[k] ELSE None

(***************************************************************************)
(* Inputs of the separation collaborator.                                  *)
(***************************************************************************)
\* str(e) of an exception a collaborator raises; "" for one without arguments
ExcMessages == {"", "separation failed"}
ImportErrorMessage == "audio-separator library not found"
\* the stems separator.separate may name in the list it returns
SepOutputs == SUBSET {"Vocals", "Instrumental"}

(***************************************************************************)
(* Output lines of the external generation process.                        *)
(*                                                                         *)
(* A stripped line is a phrase followed by fractions "n/m".  Of a fraction *)
(* the code looks at n, m and at what follows m: gap = 1 is one space and  *)
(* then "[", gap = 0 is "[" at once, gap = -1 is no "[".                   *)
(***************************************************************************)
Text(t) == [text |-> t, fracs |-> <<>>]
Marker(n, m, gap) == [text |-> "", fracs |-> <<[n |-> n, m |-> m, gap |-> gap]>>]
\* "" after strip(): the loop skips it
NoLine == Text("")

Phrases == {"", "loading tokenizer", "Starting stage 1",
            "Starting stage 2", "postprocessing", "Running Vocoder"}

\* line.lower() of the phrases
Lower(t) == IF t = "Running Vocoder" THEN "running vocoder"
            ELSE IF t = "Starting stage 1" THEN "starting stage 1"
            ELSE IF t = "Starting stage 2" THEN "starting stage 2"
            ELSE t

\* sub in t, for the substrings the loop looks for
Contains(t, sub) ==
    \/ t = sub
    \/ sub = "vocoder" /\ t = "running vocoder"

Lines ==
    {Text(t) : t \in Phrases}
        \cup {Marker(n, m, 1) : n \in 0..MaxNum, m \in 0..MaxNum}
        \cup {Marker(1, 2, 0), Marker(1, 2, -1),
              [text |-> "", fracs |-> <<[n |-> 1, m |-> 1, gap |-> -1],
                                        [n |-> 1, m |-> 2, gap |-> 1]>>]}

Min(a, b) == IF a <= b THEN a ELSE b

\* re.search(r'(\d+)/(\d+)\s*\[', line): the index of the leftmost fraction
\* that "[" follows, 0 when there is none
token_match(l) ==
    LET S == {i \in 1..Len(l.fracs) : l.fracs[i].gap >= 0}
    IN  IF S = {} THEN 0 ELSE CHOOSE i \in S : \A j \in S : i <= j

\* "50%|##### | 1/2" in line or "100%|##########| 2/2" in line or "/2 [" in line;
\* no modelled line holds a '%', so the third test decides
IsSegmentLine(l) ==
    \E i \in 1..Len(l.fracs) : l.fracs[i].m = 2 /\ l.fracs[i].gap = 1

\* re.search(r'(\d+)/(\d+)', line): the leftmost fraction of the line
seg_match(l) == IF Len(l.fracs) > 0 THEN 1 ELSE 0

\* int((c / t) * 40): equal to floor(40 c / t) for the c, t of the model
Scale40(c, t) == (c * 40) \div t

Keep == [kind |-> "keep", value |-> 0]
Write(p) == [kind |-> "write", value |-> p]
ZeroDivision == [kind |-> "raise", value |-> 0]

\* a loop that takes every line without a marker for the start of stage 1
ProgressUpdateUnmatched(l) ==
    IF token_match(l) # 0 THEN Keep ELSE Write(10)

\* yue_service.py:202-222: what the line does to job["progress"]
ProgressUpdate(l) ==
    IF token_match(l) # 0 THEN
        IF IsSegmentLine(l) THEN
            LET f == l.fracs[seg_match(l)]
            IN  IF f.m = 0 THEN ZeroDivision
                ELSE Write(Min(50 + Scale40(f.n, f.m), 90))
        ELSE
            LET f == l.fracs[token_match(l)]
            IN  IF f.m = 0 THEN ZeroDivision
                ELSE Write(Min(10 + Scale40(f.n, f.m), 50))
    ELSE IF Contains(l.text, "Starting stage 1") THEN Write(10)
    ELSE IF Contains(l.text, "Starting stage 2") THEN Write(50)
    ELSE IF Contains(Lower(l.text), "postprocessing")
            \/ Contains(Lower(l.text), "vocoder") THEN Write(90)
    ELSE Keep

(***************************************************************************)
(* Inputs of the generation service.                                       *)
(***************************************************************************)
\* a file name is its stem, a sequence of characters, and its extension
File(stem, ext) == [stem |-> stem, ext |-> ext]
\* genre.txt and lyrics.txt, written by start_generation_job
PromptFiles == {File(<<"g">>, "txt"), File(<<"l">>, "txt")}
\* the artifact infer.py writes into the job directory
Artifacts == {File(<<"m", "i", "x">>, "mp3")}

\* yue_service.py:231  the default of options.get("title", "My Song")
DefaultTitle == <<"M", "y", " ", "S", "o", "n", "g">>
\* "title": None, written as a sequence no string of the model equals
NoneTitle == <<None>>
\* the options dict: no "title" key, "title": None, or a title
OptionSets == {<<>>, [title |-> NoneTitle], [title |-> <<"a", " ", "!">>],
               [title |-> <<"m">>]}

\* c.isalnum() or c in ('-', '_'), for the characters of the model
IsSafeChar(c) == c \in {"a", "g", "i", "m", "n", "o", "S", "M", "x", "y", "-", "_"}

RECURSIVE SelectSafe(_)
SelectSafe(t) ==
    IF t = <<>> THEN <<>>
    ELSE IF IsSafeChar(Head(t)) THEN <<Head(t)>> \o SelectSafe(Tail(t))
    ELSE SelectSafe(Tail(t))

\* yue_service.py:231-232  title.replace(" ", "_"), then the safe characters
SanitizeTitle(t) ==
    SelectSafe([i \in 1..Len(t) |-> IF t[i] = " " THEN "_" ELSE t[i]])

\* fname.startswith(title): no title holds a '.', so it is a prefix of the stem
StartsWith(f, t) ==
    /\ Len(t) <= Len(f.stem)
    /\ SubSeq(f.stem, 1, Len(t)) = t

\* f"{title}_{fname}"
Prefixed(f, t) == File(t \o <<"_">> \o f.stem, f.ext)

\* glob("*.mp3") + glob("*.wav") of a directory
AudioFiles(dir) == {f \in dir : f.ext \in {"mp3", "wav"}}
\* process.returncode
ReturnCodes == {0, 1, 2}
\* f"Process exited with code {process.returncode}"
ExitMessage(rc) == CASE rc = 0 -> "Process exited with code 0"
                     [] rc = 1 -> "Process exited with code 1"
                     [] rc = 2 -> "Process exited with code 2"
\* f"FAILED: {job['error']}"
FailedLine(error) ==
    CASE error = ExitMessage(1) -> "FAILED: Process exited with code 1"
      [] error = ExitMessage(2) -> "FAILED: Process exited with code 2"
      [] OTHER -> "FAILED: "
AttributeErrorMessage == "'NoneType' object has no attribute 'replace'"
ZeroDivisionMessage == "division by zero"

Terminal == {"completed", "failed", "cancelled"}

Init ==
    /\ tasks = <<>>
    /\ pc = [id \in TaskIds |-> "none"]
    /\ exc = [id \in TaskIds |-> <<>>]
    /\ output_files = [id \in TaskIds |-> {}]
    /\ stop_progress = [id \in TaskIds |-> FALSE]
    /\ tpc = [id \in TaskIds |-> "none"]
    /\ current = [id \in TaskIds |-> 0]
    /\ cancelled_at = [id \in TaskIds |-> {}]
    /\ jobs = <<>>
    /\ gpc = [id \in TaskIds |-> "none"]
    /\ gexc = [id \in TaskIds |-> <<>>]
    /\ options = [id \in TaskIds |-> <<>>]
    /\ line = [id \in TaskIds |-> NoLine]
    /\ emitted = [id \in TaskIds |-> <<>>]
    /\ files = [id \in TaskIds |-> {}]
    /\ returncode = [id \in TaskIds |-> <<>>]
    /\ resp = NoResponse

(***************************************************************************)
(* POST /separate                                                          *)
(***************************************************************************)
\* storing the upload may raise, and the handler answers 500 before it
\* inserts anything; else the record is inserted and then the runner thread is
\* started: the handler has no await in between, so no other handler runs there
\* a handler that inserts the record first and stores the upload after
separate_audio_insert_first(id) ==
    /\ id \notin DOMAIN tasks
    /\ tasks' = [x \in DOMAIN tasks \cup {id} |->
                    IF x = id THEN [status |-> "queued", progress |-> 0]
                    ELSE tasks[x]]
    /\ \/ /\ pc' = [pc EXCEPT ![id] = "start"]
          /\ resp' = Answer("separate_audio", id, HTTP200)
       \/ /\ resp' = Answer("separate_audio", id, HTTP500)
          /\ UNCHANGED pc
    /\ UNCHANGED <<exc, output_files, stop_progress, tpc, current,
                   cancelled_at, genVars>>

separate_audio(id) ==
    /\ id \notin DOMAIN tasks
    /\ \/ /\ tasks' = [x \in DOMAIN tasks \cup {id} |->
                          IF x = id THEN [status |-> "queued", progress |-> 0]
                          ELSE tasks[x]]
          /\ pc' = [pc EXCEPT ![id] = "start"]
          /\ resp' = Answer("separate_audio", id, HTTP200)
          /\ UNCHANGED <<exc, output_files, stop_progress, tpc, current,
                         cancelled_at, genVars>>
       \/ /\ resp' = Answer("separate_audio", id, HTTP500)
          /\ UNCHANGED <<sepVars, genVars>>

(***************************************************************************)
(* run_separation_task                                                     *)
(***************************************************************************)
\* a statement of the try block raises: control goes to the except clause
Raise(id, msg) ==
    /\ pc' = [pc EXCEPT ![id] = "except"]
    /\ exc' = [exc EXCEPT ![id] = <<msg>>]

\* a milestone write tasks[task_id]["progress"] = p
RunProgress(id, at, p, next) ==
    /\ pc[id] = at
    /\ tasks' = SetTaskKey(id, "progress", p)
    /\ pc' = [pc EXCEPT ![id] = next]
    /\ UNCHANGED <<exc, output_files, stop_progress, tpc, current, cancelled_at, genVars, resp>>

\* a call of the try block that writes no shared state and may raise
RunCall(id, at, msgs, next) ==
    /\ pc[id] = at
    /\ \/ /\ pc' = [pc EXCEPT ![id] = next]
          /\ UNCHANGED exc
       \/ \E msg \in msgs : Raise(id, msg)
    /\ UNCHANGED <<tasks, output_files, stop_progress, tpc, current, cancelled_at, genVars, resp>>

RunStart(id) ==
    /\ pc[id] = "start"
    /\ tasks' = SetTaskKey(id, "status", "processing")
    /\ pc' = [pc EXCEPT ![id] = "progress5"]
    /\ UNCHANGED <<exc, output_files, stop_progress, tpc, current, cancelled_at, genVars, resp>>

RunProgress5(id) == RunProgress(id, "progress5", 5, "mkdir")

RunMkdir(id) == RunCall(id, "mkdir", ExcMessages, "progress10")

RunProgress10(id) == RunProgress(id, "progress10", 10, "import")

RunImportSeparator(id) ==
    RunCall(id, "import", {ImportErrorMessage} \cup ExcMessages, "progress20")

RunProgress20(id) == RunProgress(id, "progress20", 20, "load_model")

RunLoadModel(id) == RunCall(id, "load_model", ExcMessages, "progress1")

RunProgress1(id) == RunProgress(id, "progress1", 1, "start_ticker")

RunStartTicker(id) ==
    /\ pc[id] = "start_ticker"
    /\ stop_progress' = [stop_progress EXCEPT ![id] = FALSE]
    /\ tpc' = [tpc EXCEPT ![id] = "loop"]
    /\ current' = [current EXCEPT ![id] = 1]
    /\ pc' = [pc EXCEPT ![id] = "separate"]
    /\ UNCHANGED <<tasks, exc, output_files, cancelled_at, genVars, resp>>

\* separator.separate returns the list of stems, or raises; either way the
\* finally clause runs next
RunSeparate(id) ==
    /\ pc[id] = "separate"
    /\ pc' = [pc EXCEPT ![id] = "finally"]
    /\ \/ /\ \E fs \in SepOutputs : output_files' = [output_files EXCEPT ![id] = fs]
          /\ UNCHANGED exc
       \/ /\ \E msg \in ExcMessages : exc' = [exc EXCEPT ![id] = <<msg>>]
          /\ UNCHANGED output_files
    /\ UNCHANGED <<tasks, stop_progress, tpc, current, cancelled_at, genVars, resp>>

RunStopSet(id) ==
    /\ pc[id] = "finally"
    /\ stop_progress' = [stop_progress EXCEPT ![id] = TRUE]
    /\ pc' = [pc EXCEPT ![id] = "join"]
    /\ UNCHANGED <<tasks, exc, output_files, tpc, current, cancelled_at, genVars, resp>>

\* a join that gives up waiting: progress_thread.join(timeout)
RunJoinTimeout(id) ==
    /\ pc[id] = "join"
    /\ pc' = [pc EXCEPT ![id] = IF exc[id] # <<>> THEN "except" ELSE "check_cancel"]
    /\ UNCHANGED <<tasks, exc, output_files, stop_progress, tpc, current, cancelled_at, genVars, resp>>

\* progress_thread.join() returns once simulate_progress has returned; the
\* exception of the try clause, if any, is re-raised after the finally clause
RunJoin(id) ==
    /\ pc[id] = "join"
    /\ tpc[id] = "done"
    /\ pc' = [pc EXCEPT ![id] = IF exc[id] # <<>> THEN "except" ELSE "check_cancel"]
    /\ UNCHANGED <<tasks, exc, output_files, stop_progress, tpc, current, cancelled_at, genVars, resp>>

RunCheckCancel(id) ==
    /\ pc[id] = "check_cancel"
    /\ pc' = [pc EXCEPT ![id] =
                IF Get(tasks[id], "status") = "cancelled" THEN "done" ELSE "rename"]
    /\ UNCHANGED <<tasks, exc, output_files, stop_progress, tpc, current, cancelled_at, genVars, resp>>

\* the stems are looked up and renamed on disk; Path.rename may raise
RunRename(id) == RunCall(id, "rename", ExcMessages, "result")

\* vocals_path / instrumental_path of the result: the final file exists when
\* the stem was returned and renamed
\* a path is the directory, named by a task id, and the file name in it
ResultOf(id, fs) ==
    [vocals_url |-> <<id, "vocals.wav">>,
     instrumental_url |-> <<id, "instrumental.wav">>,
     vocals_path |-> IF "Vocals" \in fs THEN <<id, "vocals.wav">> ELSE <<>>,
     instrumental_path |-> IF "Instrumental" \in fs
                           THEN <<id, "instrumental.wav">> ELSE <<>>]

RunResult(id) ==
    /\ pc[id] = "result"
    /\ tasks' = SetTaskKey(id, "result", ResultOf(id, output_files[id]))
    /\ pc' = [pc EXCEPT ![id] = "completed"]
    /\ UNCHANGED <<exc, output_files, stop_progress, tpc, current, cancelled_at, genVars, resp>>

RunCompleted(id) ==
    /\ pc[id] = "completed"
    /\ tasks' = SetTaskKey(id, "status", "completed")
    /\ pc' = [pc EXCEPT ![id] = "progress100"]
    /\ UNCHANGED <<exc, output_files, stop_progress, tpc, current, cancelled_at, genVars, resp>>

\* a runner that drops the record of a job it has finished
RunForgetFinished(id) ==
    /\ pc[id] = "progress100"
    /\ tasks' = [x \in DOMAIN tasks \ {id} |-> tasks[x]]
    /\ pc' = [pc EXCEPT ![id] = "done"]
    /\ UNCHANGED <<exc, output_files, stop_progress, tpc, current, cancelled_at, genVars, resp>>

RunProgress100(id) == RunProgress(id, "progress100", 100, "done")

\* an except clause that only logs the exception
RunExceptLogOnly(id) ==
    /\ pc[id] = "except"
    /\ pc' = [pc EXCEPT ![id] = "done"]
    /\ UNCHANGED <<tasks, exc, output_files, stop_progress, tpc, current, cancelled_at, genVars, resp>>

\* except Exception as e: tasks[task_id]["status"] = "failed"
RunExceptStatus(id) ==
    /\ pc[id] = "except"
    /\ tasks' = SetTaskKey(id, "status", "failed")
    /\ pc' = [pc EXCEPT ![id] = "except_error"]
    /\ UNCHANGED <<exc, output_files, stop_progress, tpc, current, cancelled_at, genVars, resp>>

\* an except clause that stores a fixed text for the error
RunExceptErrorFixed(id) ==
    /\ pc[id] = "except_error"
    /\ tasks' = SetTaskKey(id, "error", "Internal error")
    /\ pc' = [pc EXCEPT ![id] = "done"]
    /\ UNCHANGED <<exc, output_files, stop_progress, tpc, current, cancelled_at, genVars, resp>>

\* tasks[task_id]["error"] = str(e)
RunExceptError(id) ==
    /\ pc[id] = "except_error"
    /\ tasks' = SetTaskKey(id, "error", exc[id][1])
    /\ pc' = [pc EXCEPT ![id] = "done"]
    /\ UNCHANGED <<exc, output_files, stop_progress, tpc, current, cancelled_at, genVars, resp>>

(***************************************************************************)
(* simulate_progress                                                       *)
(***************************************************************************)
TickGoto(id, next) ==
    /\ tpc' = [tpc EXCEPT ![id] = next]
    /\ UNCHANGED <<tasks, pc, exc, output_files, stop_progress, current, cancelled_at, genVars, resp>>

\* while not stop_progress.is_set()
TickLoop(id) ==
    /\ tpc[id] = "loop"
    /\ TickGoto(id, IF stop_progress[id] THEN "done" ELSE "wait")

\* stop_progress.wait(timeout=1.0): True as soon as the event is set, False
\* when a second has passed; at most `limit` seconds pass
TickWait(id, limit) ==
    /\ tpc[id] = "wait"
    /\ \/ stop_progress[id] /\ TickGoto(id, "done")
       \/ ~stop_progress[id] /\ current[id] <= limit /\ TickGoto(id, "increment")

\* a ticker that counts on without a cap
TickIncrementUncapped(id) ==
    /\ tpc[id] = "increment"
    /\ current' = [current EXCEPT ![id] = @ + 1]
    /\ tpc' = [tpc EXCEPT ![id] = "check_status"]
    /\ UNCHANGED <<tasks, pc, exc, output_files, stop_progress, cancelled_at, genVars, resp>>

\* if current < 95: current += 1
TickIncrement(id) ==
    /\ tpc[id] = "increment"
    /\ current' = [current EXCEPT ![id] = IF @ < TickCap THEN @ + 1 ELSE @]
    /\ tpc' = [tpc EXCEPT ![id] = "check_status"]
    /\ UNCHANGED <<tasks, pc, exc, output_files, stop_progress, cancelled_at, genVars, resp>>

\* tasks[task_id].get("status") == "processing" and ...
TickCheckStatus(id) ==
    /\ tpc[id] = "check_status"
    /\ TickGoto(id, IF Get(tasks[id], "status") = "processing"
                    THEN "check_stop" ELSE "loop")

\* ... and not stop_progress.is_set()
TickCheckStop(id) ==
    /\ tpc[id] = "check_stop"
    /\ TickGoto(id, IF stop_progress[id] THEN "loop" ELSE "write")

TickWrite(id) ==
    /\ tpc[id] = "write"
    /\ tasks' = SetTaskKey(id, "progress", current[id])
    /\ tpc' = [tpc EXCEPT ![id] = "loop"]
    /\ UNCHANGED <<pc, exc, output_files, stop_progress, current, cancelled_at, genVars, resp>>

(***************************************************************************)
(* GET /task/{task_id} and POST /task/{task_id}/cancel                     *)
(***************************************************************************)
\* a handler that caps the progress it reports
get_task_status_capped(id) ==
    /\ resp' = Answer("get_task_status", id,
                      IF id \in DOMAIN tasks THEN HTTP200 ELSE HTTP404)
    /\ tasks' = IF id \in DOMAIN tasks /\ tasks[id]["progress"] > TickCap
                THEN SetTaskKey(id, "progress", TickCap) ELSE tasks
    /\ UNCHANGED <<pc, exc, output_files, stop_progress, tpc, current, cancelled_at, genVars>>

\* returns tasks[task_id], or 404; writes nothing
get_task_status(id) ==
    /\ resp' = Answer("get_task_status", id,
                      IF id \in DOMAIN tasks THEN HTTP200 ELSE HTTP404)
    /\ UNCHANGED <<sepVars, genVars>>

\* the phase of a job, as a cancel request finds it
Phase(id) ==
    IF tasks[id]["status"] = "queued" THEN "queued"
    ELSE IF tasks[id]["status"] = "processing" /\ pc[id] = "separate" THEN "in_flight"
    ELSE "other"

\* a handler that answers every id alike
cancel_task_any(id) ==
    /\ tasks' = IF id \in DOMAIN tasks
                THEN SetTaskKey(id, "status", "cancelled") ELSE tasks
    /\ cancelled_at' = IF id \in DOMAIN tasks
                       THEN [cancelled_at EXCEPT ![id] = @ \cup {Phase(id)}]
                       ELSE cancelled_at
    /\ resp' = Answer("cancel_task", id, HTTP200)
    /\ UNCHANGED <<pc, exc, output_files, stop_progress, tpc, current, genVars>>

cancel_task(id) ==
    \/ /\ id \in DOMAIN tasks
       /\ tasks' = SetTaskKey(id, "status", "cancelled")
       /\ cancelled_at' = [cancelled_at EXCEPT ![id] = @ \cup {Phase(id)}]
       /\ resp' = Answer("cancel_task", id, HTTP200)
       /\ UNCHANGED <<pc, exc, output_files, stop_progress, tpc, current, genVars>>
    \/ /\ id \notin DOMAIN tasks
       /\ resp' = Answer("cancel_task", id, HTTP404)
       /\ UNCHANGED <<sepVars, genVars>>

(***************************************************************************)
(* The separation service.                                                 *)
(***************************************************************************)
Runner(id) ==
    \/ RunStart(id)
    \/ RunProgress5(id)
    \/ RunMkdir(id)
    \/ RunProgress10(id)
    \/ RunImportSeparator(id)
    \/ RunProgress20(id)
    \/ RunLoadModel(id)
    \/ RunProgress1(id)
    \/ RunStartTicker(id)
    \/ RunSeparate(id)
    \/ RunStopSet(id)
    \/ RunJoin(id)
    \/ RunCheckCancel(id)
    \/ RunRename(id)
    \/ RunResult(id)
    \/ RunCompleted(id)
    \/ RunProgress100(id)
    \/ RunExceptStatus(id)
    \/ RunExceptError(id)

Ticker(id, limit) ==
    \/ TickLoop(id)
    \/ TickWait(id, limit)
    \/ TickIncrement(id)
    \/ TickCheckStatus(id)
    \/ TickCheckStop(id)
    \/ TickWrite(id)

\* at most MaxSepJobs jobs are submitted
SepNext ==
    /\ \E id \in TaskIds :
          \/ separate_audio(id)
          \/ get_task_status(id)
          \/ cancel_task(id)
          \/ Runner(id)
          \/ Ticker(id, MaxTicks)
    /\ Cardinality(DOMAIN tasks') <= MaxSepJobs

SpecSep == Init /\ [][SepNext]_vars

(***************************************************************************)
(* start_generation_job                                                    *)
(***************************************************************************)
\* os.makedirs or writing a prompt file may raise, and then no record is
\* inserted; the directory such a call may leave behind belongs to no job and
\* is never listed, so `files` keeps the directories of the jobs only
start_generation_job(id) ==
    /\ id \notin DOMAIN jobs
    /\ \/ /\ \E o \in OptionSets : options' = [options EXCEPT ![id] = o]
          /\ jobs' = [x \in DOMAIN jobs \cup {id} |->
                        IF x = id
                        THEN [id |-> id, status |-> "pending", progress |-> 0,
                              logs |-> <<>>, output_files |-> {}, error |-> None]
                        ELSE jobs[x]]
          /\ files' = [files EXCEPT ![id] = PromptFiles]
          /\ gpc' = [gpc EXCEPT ![id] = "start"]
          /\ resp' = Answer("start_generation_job", id, Returned)
          /\ UNCHANGED <<gexc, returncode, line, emitted>>
       \/ /\ resp' = Answer("start_generation_job", id, Raised)
          /\ UNCHANGED genVars
    /\ UNCHANGED sepVars

(***************************************************************************)
(* get_job_status                                                          *)
(***************************************************************************)
\* None for an unknown id; else the listing of the job directory, which
\* start_generation_job created, is stored in the record and the record returned
\* a lookup that lists the audio files of every job directory
get_job_status_all(id) ==
    \/ /\ id \notin DOMAIN jobs
       /\ resp' = Answer("get_job_status", id, None)
       /\ UNCHANGED <<sepVars, genVars>>
    \/ /\ id \in DOMAIN jobs
       /\ jobs' = [jobs EXCEPT ![id] =
                        SetKey(jobs[id], "output_files",
                               AudioFiles(UNION {files[x] : x \in TaskIds}))]
       /\ resp' = Answer("get_job_status", id, Returned)
       /\ UNCHANGED <<gpc, gexc, returncode, options, line, emitted, files>>
       /\ UNCHANGED sepVars

get_job_status(id) ==
    \/ /\ id \notin DOMAIN jobs
       /\ resp' = Answer("get_job_status", id, None)
       /\ UNCHANGED <<sepVars, genVars>>
    \/ /\ id \in DOMAIN jobs
       /\ jobs' = [jobs EXCEPT ![id] =
                        SetKey(jobs[id], "output_files", AudioFiles(files[id]))]
       /\ resp' = Answer("get_job_status", id, Returned)
       /\ UNCHANGED <<gpc, gexc, returncode, options, line, emitted, files>>
       /\ UNCHANGED sepVars

(***************************************************************************)
(* _run_yue_process                                                        *)
(***************************************************************************)
SetJobKey(id, k, v) == [jobs EXCEPT ![id] = SetKey(jobs[id], k, v)]

\* job[k] = v
GenSet(id, at, k, v, next) ==
    /\ gpc[id] = at
    /\ jobs' = SetJobKey(id, k, v)
    /\ gpc' = [gpc EXCEPT ![id] = next]
    /\ UNCHANGED <<gexc, returncode, options, line, emitted, files>>
    /\ UNCHANGED <<sepVars, resp>>

\* job["logs"] = [entry]
GenLogAssign(id, at, entry, next) ==
    GenSet(id, at, "logs", <<entry>>, next)

\* job["logs"].append(entry)
GenLog(id, at, entry, next) ==
    GenSet(id, at, "logs", Append(jobs[id]["logs"], entry), next)

GenRaise(id, msg) ==
    /\ gpc' = [gpc EXCEPT ![id] = "except"]
    /\ gexc' = [gexc EXCEPT ![id] = <<msg>>]
    /\ UNCHANGED returncode

\* a call of the try block that writes nothing of the job and may raise
GenCall(id, at, msgs, next) ==
    /\ gpc[id] = at
    /\ \/ /\ gpc' = [gpc EXCEPT ![id] = next]
          /\ UNCHANGED <<gexc, returncode>>
       \/ \E msg \in msgs : GenRaise(id, msg)
    /\ UNCHANGED <<jobs, options, line, emitted, files>>
    /\ UNCHANGED <<sepVars, resp>>

GenStart(id) == GenSet(id, "start", "status", "processing", "log_model")

GenLogModel(id) == GenLog(id, "log_model", Text("Using focus model"), "log_download1")

GenLogDownload1(id) ==
    GenLog(id, "log_download1", Text("Downloading Stage 1 model"), "progress2")

GenProgress2(id) == GenSet(id, "progress2", "progress", 2, "download1")

GenDownload1(id) == GenCall(id, "download1", ExcMessages, "log_ready1")

GenLogReady1(id) == GenLog(id, "log_ready1", Text("Stage 1 model ready"), "progress5")

GenProgress5(id) == GenSet(id, "progress5", "progress", 5, "log_download2")

GenLogDownload2(id) ==
    GenLog(id, "log_download2", Text("Downloading Stage 2 model"), "download2")

GenDownload2(id) == GenCall(id, "download2", ExcMessages, "log_ready2")

GenLogReady2(id) == GenLog(id, "log_ready2", Text("Stage 2 model ready"), "progress8")

GenProgress8(id) == GenSet(id, "progress8", "progress", 8, "log_command")

GenLogCommand(id) == GenLog(id, "log_command", Text("Command"), "popen")

GenPopen(id) == GenCall(id, "popen", ExcMessages, "read")

\* a loop without the test `if line:`
GenReadLineAll(id, lines, max) ==
    /\ gpc[id] = "read"
    /\ Len(emitted[id]) < max
    /\ \E l \in lines :
        /\ emitted' = [emitted EXCEPT ![id] = Append(@, l)]
        /\ jobs' = SetJobKey(id, "logs", Append(jobs[id]["logs"], l))
        /\ line' = [line EXCEPT ![id] = l]
        /\ gpc' = [gpc EXCEPT ![id] = "parse"]
    /\ UNCHANGED <<gexc, returncode, options, files>>
    /\ UNCHANGED <<sepVars, resp>>

\* for line in process.stdout: line = line.strip(); if line: logs.append(line)
\* the process emits one of `lines`, and at most `max` lines in all
GenReadLine(id, lines, max) ==
    /\ gpc[id] = "read"
    /\ Len(emitted[id]) < max
    /\ \E l \in lines :
        /\ emitted' = [emitted EXCEPT ![id] = Append(@, l)]
        /\ IF l = NoLine
           THEN UNCHANGED <<jobs, gpc, line>>
           ELSE /\ jobs' = SetJobKey(id, "logs", Append(jobs[id]["logs"], l))
                /\ line' = [line EXCEPT ![id] = l]
                /\ gpc' = [gpc EXCEPT ![id] = "parse"]
    /\ UNCHANGED <<gexc, returncode, options, files>>
    /\ UNCHANGED <<sepVars, resp>>

\* infer.py writes an artifact into the job directory while it runs
GenProcessWrites(id) ==
    /\ gpc[id] \in {"read", "parse"}
    /\ \E f \in Artifacts \ files[id] : files' = [files EXCEPT ![id] = @ \cup {f}]
    /\ UNCHANGED <<jobs, gpc, gexc, returncode, options, line, emitted>>
    /\ UNCHANGED <<sepVars, resp>>

\* the progress parsing of the line just appended
GenParseLine(id) ==
    /\ gpc[id] = "parse"
    /\ LET u == ProgressUpdate(line[id])
       IN  /\ jobs' = IF u.kind = "write"
                      THEN SetJobKey(id, "progress", u.value) ELSE jobs
           /\ IF u.kind = "raise"
              THEN GenRaise(id, ZeroDivisionMessage)
              ELSE /\ gpc' = [gpc EXCEPT ![id] = "read"]
                   /\ UNCHANGED <<gexc, returncode>>
    /\ line' = [line EXCEPT ![id] = NoLine]
    /\ UNCHANGED <<options, emitted, files>>
    /\ UNCHANGED <<sepVars, resp>>

\* a wait that does not look at the return code
GenWaitAnyCode(id) ==
    /\ gpc[id] = "read"
    /\ \E rc \in ReturnCodes : returncode' = [returncode EXCEPT ![id] = <<rc>>]
    /\ gpc' = [gpc EXCEPT ![id] = "completed"]
    /\ UNCHANGED <<jobs, gexc, options, line, emitted, files>>
    /\ UNCHANGED <<sepVars, resp>>

\* the stream ends; process.wait(); if process.returncode == 0
GenWait(id) ==
    /\ gpc[id] = "read"
    /\ \E rc \in ReturnCodes :
        /\ returncode' = [returncode EXCEPT ![id] = <<rc>>]
        /\ gpc' = [gpc EXCEPT ![id] = IF rc = 0 THEN "completed" ELSE "failed"]
    /\ UNCHANGED <<jobs, gexc, options, line, emitted, files>>
    /\ UNCHANGED <<sepVars, resp>>

GenCompleted(id) == GenSet(id, "completed", "status", "completed", "progress100")

GenProgress100(id) == GenSet(id, "progress100", "progress", 100, "rename")

\* options.get("title", "My Song")
TitleOption(o) == IF "title" \in DOMAIN o THEN o["title"] ELSE DefaultTitle

\* yue_service.py:231-244: None.replace raises; else every audio file that
\* does not start with the title is renamed, and a rename that fails is
\* logged and skipped
GenRename(id) ==
    /\ gpc[id] = "rename"
    /\ IF TitleOption(options[id]) = NoneTitle
       THEN /\ GenRaise(id, AttributeErrorMessage)
            /\ UNCHANGED files
       ELSE LET title == SanitizeTitle(TitleOption(options[id]))
                todo == {f \in AudioFiles(files[id]) : ~StartsWith(f, title)}
            IN  /\ \E skipped \in SUBSET todo :
                    files' = [files EXCEPT ![id] =
                        (@ \ (todo \ skipped))
                            \cup {Prefixed(f, title) : f \in todo \ skipped}]
                /\ gpc' = [gpc EXCEPT ![id] = "log_completed"]
                /\ UNCHANGED <<gexc, returncode>>
    /\ UNCHANGED <<jobs, options, line, emitted>>
    /\ UNCHANGED <<sepVars, resp>>

GenLogCompleted(id) ==
    GenLog(id, "log_completed", Text("Generation completed successfully."), "done")

GenFailed(id) == GenSet(id, "failed", "status", "failed", "failed_error")

GenFailedError(id) ==
    /\ returncode[id] # <<>>
    /\ GenSet(id, "failed_error", "error", ExitMessage(returncode[id][1]), "failed_log")

GenFailedLog(id) ==
    GenLog(id, "failed_log", Text(FailedLine(jobs[id]["error"])), "done")

GenExceptStatus(id) == GenSet(id, "except", "status", "failed", "except_error")

GenExceptError(id) ==
    /\ gexc[id] # <<>>
    /\ GenSet(id, "except_error", "error", gexc[id][1], "except_log")

GenExceptLog(id) ==
    GenLog(id, "except_log", Text("EXCEPTION"), "done")

\* the runner thread of a job whose process emits lines of `lines`
GenThread(id, lines, max) ==
    \/ GenStart(id)
    \/ GenLogModel(id)
    \/ GenLogDownload1(id)
    \/ GenProgress2(id)
    \/ GenDownload1(id)
    \/ GenLogReady1(id)
    \/ GenProgress5(id)
    \/ GenLogDownload2(id)
    \/ GenDownload2(id)
    \/ GenLogReady2(id)
    \/ GenProgress8(id)
    \/ GenLogCommand(id)
    \/ GenPopen(id)
    \/ GenReadLine(id, lines, max)
    \/ GenParseLine(id)
    \/ GenProcessWrites(id)
    \/ GenWait(id)
    \/ GenCompleted(id)
    \/ GenProgress100(id)
    \/ GenRename(id)
    \/ GenLogCompleted(id)
    \/ GenFailed(id)
    \/ GenFailedError(id)
    \/ GenFailedLog(id)
    \/ GenExceptStatus(id)
    \/ GenExceptError(id)
    \/ GenExceptLog(id)

GenRunner(id) == GenThread(id, Lines, MaxLines)

(***************************************************************************)
(* The generation service.                                                 *)
(***************************************************************************)
\* at most MaxGenJobs jobs are submitted
GenNext ==
    /\ \E id \in TaskIds :
          \/ start_generation_job(id)
          \/ get_job_status(id)
          \/ GenRunner(id)
    /\ Cardinality(DOMAIN jobs') <= MaxGenJobs

SpecGen == Init /\ [][GenNext]_vars

(***************************************************************************)
(* The generation service with a process that runs its two stages: it      *)
(* emits "Starting stage 1", then markers "n/m [" with n increasing and m  *)
(* fixed, then "Starting stage 2", and nothing else.                       *)
(***************************************************************************)
StagedMarkers ==
    {Marker(n, m, 1) : n \in 0..MaxTotal, m \in 1..MaxTotal}

\* the lines of the process among the log entries, in the order emitted
Staged(id) ==
    SelectSeq(jobs[id]["logs"],
              LAMBDA e : e \in StagedMarkers
                            \cup {Text("Starting stage 1"), Text("Starting stage 2")})

\* the lines the process may emit next
StagedLines(id) ==
    IF id \notin DOMAIN jobs THEN {}
    ELSE IF Staged(id) = <<>> THEN {Text("Starting stage 1")}
    ELSE LET last == Staged(id)[Len(Staged(id))]
         IN  IF last = Text("Starting stage 2") THEN {}
             ELSE IF last = Text("Starting stage 1")
             THEN {l \in StagedMarkers : l.fracs[1].n <= l.fracs[1].m}
             ELSE {l \in StagedMarkers : /\ l.fracs[1].m = last.fracs[1].m
                                         /\ l.fracs[1].n > last.fracs[1].n
                                         /\ l.fracs[1].n <= l.fracs[1].m}
                    \cup {Text("Starting stage 2")}

StagedRunner(id) == GenThread(id, StagedLines(id), MaxTotal + 3)

StagedNext ==
    /\ \E id \in TaskIds :
          \/ start_generation_job(id)
          \/ get_job_status(id)
          \/ StagedRunner(id)
    /\ Cardinality(DOMAIN jobs') <= MaxGenJobs

SpecStaged == Init /\ [][StagedNext]_vars

(***************************************************************************)
(* Two generation jobs at a time, or a separation job.  The processes of   *)
(* the generation jobs emit at most one line, which the loop logs and does *)
(* not parse a progress from; the jobs have the default title, which       *)
(* renames the artifact, or a title the artifact starts with; an exception *)
(* has no message; the separation job is not cancelled.                    *)
(***************************************************************************)
QuietLines == {Text("loading tokenizer")}

PairOptions == {<<>>, [title |-> <<"m">>]}

PairRunner(id) == GenThread(id, QuietLines, 1)

PairNext ==
    /\ \E id \in TaskIds :
          \/ start_generation_job(id)
          \/ get_job_status(id)
          \/ PairRunner(id)
          \/ separate_audio(id)
          \/ Runner(id)
          \/ Ticker(id, MaxTicks)
    /\ Cardinality(DOMAIN jobs') <= 2
    /\ Cardinality(DOMAIN tasks') <= MaxSepJobs
    /\ tasks' = <<>> \/ jobs' = <<>>
    /\ \A id \in TaskIds :
          /\ options'[id] \in PairOptions
          /\ gexc'[id] \in {<<>>, <<"">>}
          /\ exc'[id] \in {<<>>, <<"">>}

SpecPair == Init /\ [][PairNext]_vars

(***************************************************************************)
(* Both services in one process: main.py imports yue_service.  At most     *)
(* MaxJobs jobs of either kind are submitted.                              *)
(***************************************************************************)
NumJobs == Cardinality(DOMAIN tasks) + Cardinality(DOMAIN jobs)

\* Of the lines of the process only what they do to the loop matters here:
\* one is skipped, one is logged, one writes a progress and one raises.
FewLines == {NoLine, Text("loading tokenizer"), Marker(1, 2, 1), Marker(1, 0, 1)}

GenRunnerFew(id) == GenThread(id, FewLines, MaxLines)

Next ==
    /\ \E id \in TaskIds :
          \/ separate_audio(id)
          \/ get_task_status(id)
          \/ cancel_task(id)
          \/ Runner(id)
          \/ Ticker(id, MaxTicks)
          \/ start_generation_job(id)
          \/ get_job_status(id)
          \/ GenRunnerFew(id)
    /\ NumJobs' <= MaxJobs

Spec == Init /\ [][Next]_vars

\* Both services with a separate call that lasts longer than the ticker
\* counts: the ticker may tick until its counter has stopped at TickCap.  The
\* process prints one line, one of those that write the largest values.  Every
\* request is answered with success, and a cancel request (the one step that
\* writes a record and moves no thread) arrives in the first seconds of the
\* separate call.
LongTicks == TickCap + 1

CapLines == {Marker(1, 1, 1), Marker(2, 1, 1), Marker(2, 2, 1),
             Text("Starting stage 2"), Text("postprocessing")}

LongRunner(id) == GenThread(id, CapLines, 1)

LongNext ==
    /\ \E id \in TaskIds :
          \/ separate_audio(id)
          \/ cancel_task(id)
          \/ Runner(id)
          \/ Ticker(id, LongTicks)
          \/ start_generation_job(id)
          \/ LongRunner(id)
    /\ NumJobs' <= MaxJobs
    /\ resp'.code \in {HTTP200, Returned, "none"}
    /\ tasks' # tasks /\ pc' = pc /\ tpc' = tpc
          => \A id \in TaskIds : current[id] <= MaxTicks

SpecLong == Init /\ [][LongNext]_vars

\* The services under fair scheduling.  The status requests are left out:
\* what they write, the response and the stored listing, no thread reads.
FairNext ==
    /\ \E id \in TaskIds :
          \/ separate_audio(id)
          \/ cancel_task(id)
          \/ Runner(id)
          \/ Ticker(id, MaxTicks)
          \/ start_generation_job(id)
          \/ GenRunnerFew(id)
    /\ NumJobs' <= MaxJobs

\* every started thread keeps being scheduled: the runner threads and the
\* ticker thread are threads of one interpreter, which switches between them
Fairness ==
    \A id \in TaskIds :
        /\ WF_vars(Runner(id))
        /\ WF_vars(Ticker(id, MaxTicks))
        /\ WF_vars(GenRunnerFew(id))

FairSpec == Init /\ [][FairNext]_vars /\ Fairness

(***************************************************************************)
(* Claims.                                                                 *)
(***************************************************************************)
Status(id) == tasks[id]["status"]
Progress(id) == tasks[id]["progress"]
\* the dict holds a non-empty error
HasError(d) == "error" \in DOMAIN d /\ d["error"] \notin {None, ""}

\* C1: the separation runner never writes status completed over a status
\* cancelled: no step takes a job from cancelled to completed.
C1_NeverCompletedOverCancelled ==
    [][\A id \in DOMAIN tasks :
         Status(id) = "cancelled" => tasks'[id]["status"] # "completed"]_vars

\* C2: a job whose cancel was accepted while it was processing with the
\* Separate call in flight has status cancelled from then on, whether the
\* call returns or raises.
C2_CancelInFlightStaysCancelled ==
    \A id \in DOMAIN tasks :
        "in_flight" \in cancelled_at[id] => Status(id) = "cancelled"

\* C3: a job whose cancel was accepted while it was queued is never revived:
\* its status is never processing or completed afterwards.
C3_CancelQueuedNeverRevived ==
    \A id \in DOMAIN tasks :
        "queued" \in cancelled_at[id] => Status(id) \notin {"processing", "completed"}

\* C4: a cancel of a job whose status is completed or failed leaves the
\* status unchanged.
C4_CancelKeepsTerminalStatus ==
    [][\A id \in DOMAIN tasks :
         (cancel_task(id) /\ Status(id) \in {"completed", "failed"})
            => tasks'[id]["status"] = Status(id)]_vars

\* C5: the progress of a separation job never decreases, from submission to
\* the final write of 100.
C5_SeparationProgressMonotone ==
    [][\A id \in DOMAIN tasks : tasks'[id]["progress"] >= Progress(id)]_vars

\* C6: every progress update made for an output line of the generation process
\* yields a progress that is not less than the progress before the line.
C6_LineProgressMonotone ==
    [][\A id \in DOMAIN jobs :
         gpc[id] = "parse" => jobs'[id]["progress"] >= jobs[id]["progress"]]_vars

\* C7: a separation record holds a result exactly when its status is completed.
C7_ResultIffCompleted ==
    \A id \in DOMAIN tasks :
        ("result" \in DOMAIN tasks[id]) <=> (Status(id) = "completed")

\* C8: a record of either service holds a non-empty error exactly when its
\* status is failed.
C8_ErrorIffFailed ==
    /\ \A id \in DOMAIN tasks : HasError(tasks[id]) <=> (Status(id) = "failed")
    /\ \A id \in DOMAIN jobs : HasError(jobs[id]) <=> (jobs[id]["status"] = "failed")

\* C9: a record of either service whose status is completed has progress 100.
C9_CompletedHasProgress100 ==
    /\ \A id \in DOMAIN tasks : Status(id) = "completed" => Progress(id) = 100
    /\ \A id \in DOMAIN jobs :
         jobs[id]["status"] = "completed" => jobs[id]["progress"] = 100

\* C10: while the status of a separation job is cancelled or failed, no step
\* changes its progress.
C10_ProgressFrozenAfterCancelOrFail ==
    [][\A id \in DOMAIN tasks :
         Status(id) \in {"cancelled", "failed"}
            => tasks'[id]["progress"] = Progress(id)]_vars

\* C11: under fair scheduling of the threads every submitted job, of either
\* kind, comes to the end of its runner with a terminal status; an exception
\* in the runner ends in failed, never in queued or processing
C11_EveryJobTerminates ==
    \A id \in TaskIds :
        /\ (id \in DOMAIN tasks) ~> (pc[id] = "done" /\ Status(id) \in Terminal)
        /\ (id \in DOMAIN jobs)
              ~> (gpc[id] = "done" /\ jobs[id]["status"] \in Terminal)

C11_Witness ==
    \E id \in DOMAIN tasks :
        /\ pc[id] = "done"
        /\ exc[id] # <<>>
        /\ Status(id) = "failed"

\* C12: a status or a cancel request for an id that was never submitted is
\* answered 404, a generation status lookup for such an id returns None, and
\* neither changes a registry or a thread
C12_UnknownIdNotFound ==
    [][\A id \in TaskIds :
         /\ ( /\ resp' # resp
              /\ resp'.id = id
              /\ resp'.op \in {"get_task_status", "cancel_task"}
              /\ id \notin DOMAIN tasks )
               => /\ resp'.code = HTTP404
                  /\ UNCHANGED <<tasks, jobs, pc, gpc>>
         /\ ( /\ resp' # resp
              /\ resp'.id = id
              /\ resp'.op = "get_job_status"
              /\ id \notin DOMAIN jobs )
               => /\ resp'.code = None
                  /\ UNCHANGED <<tasks, jobs, pc, gpc>>]_vars

C12_Witness ==
    /\ resp.op = "cancel_task"
    /\ resp.code = HTTP404
    /\ resp.id \notin DOMAIN tasks
    /\ tasks # <<>>

\* C13: a cancel request on the id of a generation job that is processing is
\* accepted: it is not answered 404
C13_CancelOfGenerationJobAccepted ==
    [][\A id \in DOMAIN jobs :
         ( /\ resp' # resp
           /\ resp'.op = "cancel_task"
           /\ resp'.id = id
           /\ jobs[id]["status"] = "processing" )
            => resp'.code # HTTP404]_vars

\* C14: a generation job whose process exits with a non-zero code ends failed,
\* with an error that names the code and a failure line as the last log
\* entry; its status is never completed and its progress never 100
C14_NonZeroExitFails ==
    \A id \in DOMAIN jobs :
        LET job == jobs[id]
        IN  /\ (job["status"] = "completed" \/ job["progress"] = 100)
                  => returncode[id] = <<0>>
            /\ (gpc[id] = "done" /\ returncode[id] = <<1>>)
                  => /\ job["status"] = "failed"
                     /\ job["error"] = "Process exited with code 1"
                     /\ job["logs"][Len(job["logs"])]
                            = Text("FAILED: Process exited with code 1")
            /\ (gpc[id] = "done" /\ returncode[id] = <<2>>)
                  => /\ job["status"] = "failed"
                     /\ job["error"] = "Process exited with code 2"
                     /\ job["logs"][Len(job["logs"])]
                            = Text("FAILED: Process exited with code 2")

C14_Witness ==
    \E id \in DOMAIN jobs :
        /\ gpc[id] = "done"
        /\ returncode[id] = <<2>>
        /\ jobs[id]["status"] = "failed"
        /\ jobs[id]["progress"] = 90

\* C15: a separation job that is never cancelled, whose steps raise nothing
\* and whose Separate call returns both stems, ends completed with progress
\* 100, a result that holds both artifacts, and logs with at least one entry
C15_SeparationRunToCompletion ==
    \A id \in DOMAIN tasks :
        ( /\ pc[id] = "done"
          /\ cancelled_at[id] = {}
          /\ exc[id] = <<>>
          /\ output_files[id] = {"Vocals", "Instrumental"} )
           => /\ Status(id) = "completed"
              /\ Progress(id) = 100
              /\ "result" \in DOMAIN tasks[id]
              /\ tasks[id]["result"].vocals_path # <<>>
              /\ tasks[id]["result"].instrumental_path # <<>>
              /\ "logs" \in DOMAIN tasks[id]
              /\ tasks[id]["logs"] # <<>>

\* the record a successful submit step has inserted
Submitted(r, t, j) ==
    IF r.op = "separate_audio" THEN t[r.id] ELSE j[r.id]

\* C17: a submit of either kind that returns the id has inserted a record
\* with status queued, progress 0 and an empty logs sequence
C17_SubmitInsertsQueuedRecord ==
    [][( /\ resp' # resp
         /\ resp'.op \in {"separate_audio", "start_generation_job"}
         /\ resp'.code \in {HTTP200, Returned} )
          => LET record == Submitted(resp', tasks', jobs')
             IN  /\ record["status"] = "queued"
                 /\ record["progress"] = 0
                 /\ "logs" \in DOMAIN record
                 /\ record["logs"] = <<>>]_vars

\* the process of the job has emitted both stage lines and exited with 0
StagedRunEnded(id) ==
    /\ gpc[id] = "done"
    /\ returncode[id] = <<0>>
    /\ Staged(id) # <<>>
    /\ Staged(id)[Len(Staged(id))] = Text("Starting stage 2")

\* C16: in a staged run every write of the progress raises it, and a run that
\* has emitted both stage lines and exited with 0 ends completed at 100
C16_StagedRunProgressIncreases ==
    [][\A id \in DOMAIN jobs :
         /\ jobs'[id]["progress"] >= jobs[id]["progress"]
         /\ ( /\ gpc[id] = "parse"
              /\ gpc'[id] = "read"
              /\ ProgressUpdate(line[id]).kind = "write" )
               => jobs'[id]["progress"] > jobs[id]["progress"]
         /\ StagedRunEnded(id)'
               => /\ jobs'[id]["status"] = "completed"
                  /\ jobs'[id]["progress"] = 100]_vars

IsPrefix(a, b) ==
    /\ Len(a) <= Len(b)
    /\ SubSeq(b, 1, Len(a)) = a

\* C18: the logs of a generation job only grow at the end: after every step
\* the logs before it are a prefix of the logs after it
C18_LogsPrefixMonotone ==
    [][\A id \in DOMAIN jobs :
         IsPrefix(jobs[id]["logs"], jobs'[id]["logs"])]_vars

C18_Witness ==
    \E id \in DOMAIN jobs :
        /\ gpc[id] = "done"
        /\ Len(emitted[id]) = MaxLines
        /\ Len(jobs[id]["logs"]) >= MaxLines + 7
        /\ jobs[id]["output_files"] # {}

\* C19: a submit that fails, because the upload cannot be stored or a prompt
\* file cannot be written, inserts no record and starts no thread
C19_FailedSubmitLeavesRegistry ==
    [][( /\ resp' # resp
         /\ resp'.op \in {"separate_audio", "start_generation_job"}
         /\ resp'.code \in {HTTP500, Raised} )
          => UNCHANGED <<tasks, jobs, pc, tpc, gpc>>]_vars

C19_Witness ==
    /\ resp.op = "start_generation_job"
    /\ resp.code = Raised
    /\ resp.id \notin DOMAIN jobs
    /\ jobs # <<>>

\* the paths a result names
ResultPaths(r) ==
    {r.vocals_url, r.instrumental_url, r.vocals_path, r.instrumental_path} \ {<<>>}

\* C20: the files of a directory change only in a step of the job the
\* directory is named after, its submission, its process or its renaming; a
\* status lookup stores a listing that holds only files of the directory of
\* the job asked for, and changes the record of no other job; the result of
\* a separation job names only paths under the directory of its own id
C20_ArtifactsUnderOwnId ==
    [][/\ \A a \in TaskIds :
            files'[a] # files[a]
                => /\ a \in DOMAIN jobs'
                   /\ gpc[a] \in {"none", "read", "parse", "rename"}
                   /\ \A b \in TaskIds \ {a} : files'[b] = files[b]
       /\ \A a \in DOMAIN jobs :
            /\ ( /\ resp' # resp
                 /\ resp'.op = "get_job_status"
                 /\ resp'.id = a )
                  => /\ jobs'[a]["output_files"] \subseteq files[a]
                     /\ \A b \in DOMAIN jobs \ {a} : jobs'[b] = jobs[b]
                     /\ files' = files
       /\ \A id \in DOMAIN tasks' :
            "result" \in DOMAIN tasks'[id]
                => \A path \in ResultPaths(tasks'[id]["result"]) : path[1] = id]_vars

C20_Witness ==
    \E a, b \in DOMAIN jobs :
        /\ a # b
        /\ jobs[a]["output_files"] # {}
        /\ jobs[b]["output_files"] # {}
        /\ jobs[a]["output_files"] \cap jobs[b]["output_files"] = {}
        /\ resp = Answer("get_job_status", a, Returned)

\* d without the key k
Without(d, k) == [x \in DOMAIN d \ {k} |-> d[x]]

\* C21: a status request changes no separation record and no thread; of the
\* generation records it changes at most the output_files of the job asked for
C21_StatusIsReadOnly ==
    [][( /\ resp' # resp
         /\ resp'.op \in {"get_task_status", "get_job_status"} )
          => /\ UNCHANGED <<tasks, pc, tpc, gpc, files>>
             /\ DOMAIN jobs' = DOMAIN jobs
             /\ \A id \in DOMAIN jobs :
                   /\ Without(jobs'[id], "output_files")
                         = Without(jobs[id], "output_files")
                   /\ (resp'.op = "get_task_status" \/ resp'.id # id)
                         => jobs'[id] = jobs[id]]_vars

C21_Witness ==
    \E id \in DOMAIN jobs :
        /\ resp = Answer("get_job_status", id, Returned)
        /\ jobs[id]["status"] = "processing"
        /\ jobs[id]["progress"] > 0
        /\ jobs[id]["output_files"] # {}

\* the runner of id is about to write a terminal status, or has written it
AtTerminalWrite(id) == pc[id] \in {"completed", "except"}
PastTerminalWrite(id) == pc[id] \in {"progress100", "except_error"}

\* C22: when the runner of a separation job writes completed or failed, a ticker
\* that was started has been signalled and has returned; the ticker takes no
\* step after that write, and a progress of 100 is never overwritten
C22_TickerStoppedBeforeTerminalWrite ==
    [][\A id \in DOMAIN tasks :
          /\ (AtTerminalWrite(id) /\ pc'[id] # pc[id])
                => /\ tasks'[id]["status"] \in {"completed", "failed"}
                   /\ tpc[id] \in {"none", "done"}
                   /\ tpc[id] = "done" => stop_progress[id]
                   /\ output_files[id] # {} => tpc[id] = "done"
          /\ (PastTerminalWrite(id) \/ (pc[id] = "done" /\ tpc[id] # "none"))
                => /\ tpc'[id] = tpc[id]
                   /\ tpc[id] \in {"none", "done"}
          /\ tasks[id]["progress"] = 100 => tasks'[id]["progress"] = 100]_vars

C22_Witness ==
    \E id \in DOMAIN tasks :
        /\ pc[id] = "done"
        /\ tasks[id]["status"] = "completed"
        /\ tasks[id]["progress"] = 100
        /\ tpc[id] = "done"
        /\ stop_progress[id]
        /\ current[id] > 1

\* C23: the generation runner writes one terminal status only: a job that is
\* completed stays completed and a job that is failed stays failed
C23_TerminalStatusWrittenOnce ==
    [][\A id \in DOMAIN jobs :
          /\ jobs[id]["status"] = "completed" => jobs'[id]["status"] = "completed"
          /\ jobs[id]["status"] = "failed" => jobs'[id]["status"] = "failed"]_vars

\* a marker line whose total is zero
ZeroTotal(l) == token_match(l) # 0 /\ l.fracs[token_match(l)].m = 0

\* C24: parsing a marker line with total zero raises nothing, leaves progress
\* as it is and leaves the job processing
C24_ZeroTotalMarkerIgnored ==
    [][\A id \in DOMAIN jobs :
          (gpc[id] = "parse" /\ gpc'[id] # "parse" /\ ZeroTotal(line[id]))
             => /\ gpc'[id] = "read"
                /\ gexc'[id] = <<>>
                /\ jobs'[id]["progress"] = jobs[id]["progress"]
                /\ jobs'[id]["status"] = "processing"]_vars

\* the stage a job is in: the number of the last stage line among its logs,
\* 0 before the first
StageOf(logs) ==
    LET S == {i \in 1..Len(logs) :
                logs[i] \in {Text("Starting stage 1"), Text("Starting stage 2")}}
    IN  IF S = {} THEN 0
        ELSE LET last == CHOOSE i \in S : \A j \in S : j <= i
             IN  IF logs[last] = Text("Starting stage 1") THEN 1 ELSE 2

\* a line that is one marker "N/M [" with 0 <= N <= M and M > 0
WellFormedMarker(l) ==
    /\ Len(l.fracs) = 1
    /\ l.fracs[1].gap >= 0
    /\ l.fracs[1].m > 0
    /\ l.fracs[1].n <= l.fracs[1].m

\* C25: parsing a well-formed marker N/M writes 10 + floor(40 N / M), a value
\* of 10..49, while the job is in stage 1, and 50 + floor(40 N / M), a value of
\* 50..89, while it is in stage 2
C25_MarkerBandByStage ==
    [][\A id \in DOMAIN jobs :
          (gpc[id] = "parse" /\ gpc'[id] # "parse" /\ WellFormedMarker(line[id]))
             => LET f == line[id].fracs[1]
                    p == jobs'[id]["progress"]
                IN  /\ StageOf(jobs[id]["logs"]) = 1
                          => p = 10 + Scale40(f.n, f.m) /\ p \in 10..49
                    /\ StageOf(jobs[id]["logs"]) = 2
                          => p = 50 + Scale40(f.n, f.m) /\ p \in 50..89]_vars

\* C26: a progress of 100 is written by the completion write of the runner
\* only; what the line loop writes is at most 90 and what the ticker writes is
\* at most 95
C26_HundredOnlyByCompletion ==
    [][/\ \A id \in DOMAIN tasks :
            /\ (tasks'[id]["progress"] = 100 /\ tasks[id]["progress"] # 100)
                  => pc[id] = "progress100" /\ pc'[id] = "done"
            /\ (tpc[id] = "write" /\ tpc'[id] # "write")
                  => tasks'[id]["progress"] <= TickCap
       /\ \A id \in DOMAIN jobs :
            /\ (jobs'[id]["progress"] = 100 /\ jobs[id]["progress"] # 100)
                  => /\ gpc[id] = "progress100"
                     /\ returncode[id] = <<0>>
                     /\ jobs[id]["status"] = "completed"
            /\ (gpc[id] = "parse" /\ gpc'[id] # "parse")
                  => jobs'[id]["progress"] <= 90]_vars

C26_Witness ==
    \E id \in DOMAIN tasks :
        /\ tasks[id]["progress"] = TickCap
        /\ current[id] = TickCap
        /\ tpc[id] = "increment"
        /\ pc[id] = "separate"

\* a non-empty line with no marker "N/M [" and no milestone substring
Plain(l) ==
    /\ l # NoLine
    /\ token_match(l) = 0
    /\ ~Contains(l.text, "Starting stage 1")
    /\ ~Contains(l.text, "Starting stage 2")
    /\ ~Contains(Lower(l.text), "postprocessing")
    /\ ~Contains(Lower(l.text), "vocoder")

\* C27: reading a plain line appends it to the logs and changes nothing else
\* of the record; parsing it changes nothing of the record and raises nothing
C27_PlainLineOnlyLogged ==
    [][\A id \in DOMAIN jobs :
          /\ (gpc[id] = "read" /\ gpc'[id] = "parse" /\ Plain(line'[id]))
                => jobs'[id] = SetKey(jobs[id], "logs",
                                      Append(jobs[id]["logs"], line'[id]))
          /\ (gpc[id] = "parse" /\ gpc'[id] # "parse" /\ Plain(line[id]))
                => /\ jobs'[id] = jobs[id]
                   /\ gpc'[id] = "read"
                   /\ gexc'[id] = gexc[id]]_vars

C27_Witness ==
    \E id \in DOMAIN jobs :
        /\ gpc[id] = "read"
        /\ Len(emitted[id]) = 1
        /\ jobs[id]["logs"][Len(jobs[id]["logs"])] = Text("loading tokenizer")
        /\ jobs[id]["progress"] = 8
        /\ jobs[id]["status"] = "processing"

\* C28: a separation job that no cancel request reached and whose runner has
\* ended after an exception is failed, its error is the message of the
\* exception, it has no result, its progress is below 100, and its ticker, if
\* one was started, was signalled and has returned
C28_ExceptionEndsFailed ==
    \A id \in DOMAIN tasks :
        (pc[id] = "done" /\ exc[id] # <<>> /\ cancelled_at[id] = {})
           => /\ tasks[id]["status"] = "failed"
              /\ "error" \in DOMAIN tasks[id]
              /\ tasks[id]["error"] = exc[id][1]
              /\ "result" \notin DOMAIN tasks[id]
              /\ tasks[id]["progress"] < 100
              /\ tpc[id] \in {"none", "done"}
              /\ tpc[id] = "done" => stop_progress[id]

C28_Witness ==
    \E id \in DOMAIN tasks :
        /\ pc[id] = "done"
        /\ exc[id] = <<"separation failed">>
        /\ cancelled_at[id] = {}
        /\ tasks[id]["status"] = "failed"
        /\ tpc[id] = "done"
        /\ current[id] > 1

\* the entries the runner appends before it starts the process
SetupEntries == 6

\* the entries appended to the logs since the process was started
StreamLogs(id) == SubSeq(jobs[id]["logs"], SetupEntries + 1, Len(jobs[id]["logs"]))

\* C29: while the output of the process is read, the entries appended since its
\* start are the non-empty lines it has written, in the order written, and a
\* line whose progress update is pending is already the last entry of the logs
C29_LogsAreEmittedLines ==
    \A id \in DOMAIN jobs :
        gpc[id] \in {"read", "parse"}
           => /\ StreamLogs(id) = SelectSeq(emitted[id], LAMBDA l : l # NoLine)
              /\ gpc[id] = "parse"
                    => /\ line[id] # NoLine
                       /\ line[id] = emitted[id][Len(emitted[id])]
                       /\ line[id] = jobs[id]["logs"][Len(jobs[id]["logs"])]

C29_Witness ==
    \E id \in DOMAIN jobs :
        /\ gpc[id] = "parse"
        /\ emitted[id] = <<NoLine, Marker(1, 2, 1)>>
        /\ StreamLogs(id) = <<Marker(1, 2, 1)>>
        /\ jobs[id]["progress"] = 8

\* C30: when the runner of a completed generation job has ended, every audio
\* file of its directory starts with the sanitized title the caller gave, that
\* title holds safe characters only, and without a title from the caller the
\* files keep the names the process gave them
C30_ArtifactsCarryTitle ==
    \A id \in DOMAIN jobs :
        (gpc[id] = "done" /\ jobs[id]["status"] = "completed")
           => IF "title" \in DOMAIN options[id]
              THEN LET title == SanitizeTitle(options[id]["title"])
                   IN  /\ \A i \in 1..Len(title) : IsSafeChar(title[i])
                       /\ \A f \in AudioFiles(files[id]) : StartsWith(f, title)
              ELSE AudioFiles(files[id]) \subseteq Artifacts

\* every thread that has been started belongs to a record of the registry
ThreadsHaveRecords ==
    \A id \in TaskIds :
        /\ (pc[id] # "none" \/ tpc[id] # "none") => id \in DOMAIN tasks
        /\ gpc[id] # "none" => id \in DOMAIN jobs

\* C31: a record, once inserted, stays: no step removes a record, takes a key
\* from it or changes the id it holds; a submission that returned an id has
\* inserted its record; a status request for an inserted id is never answered
\* not-found; and a runner or ticker runs only for an id that has a record
C31_RecordsAreRetained ==
    [][/\ DOMAIN tasks \subseteq DOMAIN tasks'
       /\ DOMAIN jobs \subseteq DOMAIN jobs'
       /\ \A id \in DOMAIN tasks : DOMAIN tasks[id] \subseteq DOMAIN tasks'[id]
       /\ \A id \in DOMAIN jobs :
             /\ DOMAIN jobs[id] \subseteq DOMAIN jobs'[id]
             /\ jobs'[id]["id"] = id
       /\ (resp' # resp /\ resp'.op = "separate_audio" /\ resp'.code = HTTP200)
             => resp'.id \in DOMAIN tasks' \ DOMAIN tasks
       /\ (resp' # resp /\ resp'.op = "start_generation_job" /\ resp'.code = Returned)
             => resp'.id \in DOMAIN jobs' \ DOMAIN jobs
       /\ (resp' # resp /\ resp'.op = "get_task_status" /\ resp'.id \in DOMAIN tasks)
             => resp'.code = HTTP200
       /\ (resp' # resp /\ resp'.op = "get_job_status" /\ resp'.id \in DOMAIN jobs)
             => resp'.code = Returned
       /\ ThreadsHaveRecords
       /\ ThreadsHaveRecords']_vars

C31_Witness ==
    \E id \in DOMAIN tasks :
        /\ resp = Answer("get_task_status", id, HTTP200)
        /\ pc[id] = "done"
        /\ tasks[id]["status"] = "completed"
        /\ tasks[id]["progress"] = 100
        /\ "result" \in DOMAIN tasks[id]

=============================================================================
